---- MODULE Spec2Model ----
(***************************************************************************)
(* A model of the superstate crate (src/src/lib.rs): the four component    *)
(* hooks, the per-entity SuperstateInfo record and register_hooks, run on  *)
(* a model of the part of the entity/component store they use: bundles     *)
(* with required components, one on_add / on_remove hook slot per          *)
(* component, and the command queue in which hooks leave their removals.   *)
(*                                                                         *)
(* Store semantics the hooks rely on (bevy_ecs, the version whose          *)
(* HookContext lives in bevy_ecs::component):                              *)
(*  - insert(bundle) adds the bundle's components that are missing, then   *)
(*    the required components that are missing, writes them all, and only  *)
(*    then runs on_add hooks: first for the added explicit components in   *)
(*    bundle order, then for the added required components.  A component   *)
(*    that was already on the entity is overwritten and gets no on_add.    *)
(*  - remove(bundle) / remove_by_id(id) run on_remove hooks for the bundle *)
(*    components that are on the entity, in bundle order, and then takes   *)
(*    exactly those components away (required components stay).           *)
(*  - a command queued by a hook is applied when the structural operation  *)
(*    that ran the hook has finished, before the next command that was     *)
(*    already waiting.                                                     *)
(*  - register_component_hooks_by_id(id) is None only for an id that is    *)
(*    not a registered component; ComponentHooks::on_add / on_remove panic *)
(*    when the slot is already taken.                                      *)
(***************************************************************************)
EXTENDS Naturals, Sequences, FiniteSets, TLC

VARIABLES
    registered,   \* world.components(): the component ids known to the world
    hooks,        \* component id -> its ComponentHooks (on_add, on_remove slots)
    result,       \* what the last register_hooks call did, and the call
    components,   \* entity -> the component ids attached to it
    info,         \* entity -> category -> its SuperstateInfo<category> value
    queue,        \* the world's command queue, head first
    flushing,     \* TRUE while the queue is being applied
    panicked,     \* TRUE once an unwrap() or expect() has panicked
    last,         \* history: the last user command applied and the entity before it
    txn           \* history: the user commands applied so far in this flush

vars == <<registered, hooks, result, components, info, queue, flushing,
          panicked, last, txn>>

---------------------------------------------------------------------------
(* Bounds *)

\* user commands that may wait in the queue before a flush
MaxTxn == 2
\* components in one bundle a user inserts or removes
MaxBundle == 3
\* register_hooks calls made on one world
MaxCalls == 2
\* state types in the bundle of one register_hooks call of RegSpec
MaxRegBundle == 2

---------------------------------------------------------------------------
(* The component types of tests/invariat.rs and of the crate docs *)

\* a hook reads and writes ctx.entity alone and a command names one entity
Entities == {"e1"}

Supers == {"Movement", "SuperB"}

\* the States bundle each category is declared with
Declared(c) ==
    IF c = "Movement" THEN <<"Walking", "Running", "Flying">> ELSE <<"B1", "B2">>

Range(s) == {s[k] : k \in 1..Len(s)}

StateIds == UNION {Range(Declared(c)) : c \in Supers}

\* the id of SuperstateInfo<c>
InfoId(c) == IF c = "Movement" THEN "Info_Movement" ELSE "Info_SuperB"

InfoIds == {InfoId(c) : c \in Supers}

ComponentIds == StateIds \cup Supers \cup InfoIds

\* #[require(...)]: a state requires its category, a category its record
SuperOf(id) == CHOOSE c \in Supers : id \in Range(Declared(c))

Required(id) ==
    IF id \in StateIds THEN <<SuperOf(id), InfoId(SuperOf(id))>>
    ELSE IF id \in Supers THEN <<InfoId(id)>>
    ELSE <<>>

\* #[derive(Default)] of SuperstateInfo
DefaultInfo == [state_ids |-> <<>>, states_on_entity |-> <<>>]

NoHook == [fn |-> "none", super |-> "none", states |-> <<>>]

NoHooks == [on_add |-> NoHook, on_remove |-> NoHook]

Hook(fn, Super, States) == [fn |-> fn, super |-> Super, states |-> States]

\* commands: cmd.entity(e).insert(bundle) / remove::<Bundle>() / remove_by_id(id)
Cmd(op, e, bundle, by) == [op |-> op, entity |-> e, bundle |-> bundle, by |-> by]

NoCmd == Cmd("none", "none", <<>>, "user")

---------------------------------------------------------------------------
(* SuperstateInfo, src/src/lib.rs 223-246 *)

\* the index of the first element of s equal to id, 0 when there is none
\* (iter().enumerate().find(..))
find(s, id) ==
    IF \E k \in 1..Len(s) : s[k] = id
    THEN CHOOSE k \in 1..Len(s) : s[k] = id /\ \A j \in 1..(k - 1) : s[j] # id
    ELSE 0

\* Vec::swap_remove: the last element takes the place of the removed one
swap_remove(s, index) ==
    LET short == SubSeq(s, 1, Len(s) - 1)
    IN IF index = Len(s) THEN short ELSE [short EXCEPT ![index] = s[Len(s)]]

\* remove_by_id that finds the id and leaves it in the list
remove_by_id_keeps(i, id) ==
    LET index == find(i.states_on_entity, id)
    IN IF index # 0
       THEN [i EXCEPT !.states_on_entity = swap_remove(Append(@, id), index)]
       ELSE i

\* remove_by_id that takes the last element when id is not found
remove_by_id_or_last(i, id) ==
    LET index == find(i.states_on_entity, id)
        at == IF index # 0 THEN index ELSE Len(i.states_on_entity)
    IN IF at # 0
       THEN [i EXCEPT !.states_on_entity = swap_remove(i.states_on_entity, at)]
       ELSE i

remove_by_id(i, id) ==
    LET index == find(i.states_on_entity, id)
    IN IF index # 0
       THEN [i EXCEPT !.states_on_entity = swap_remove(i.states_on_entity, index)]
       ELSE i

---------------------------------------------------------------------------
(* The hooks, src/src/lib.rs 103-165.  A hook gets the entity as the       *)
(* DeferredWorld shows it: w.present are the components on ctx.entity,     *)
(* w.info its SuperstateInfo values, w.cmds the commands queued so far by  *)
(* the hooks of the running operation.  A hook cannot change w.present.    *)

Panic(w) == [w EXCEPT !.panicked = TRUE]

\* on_add_hook_state without the eviction loop
on_add_hook_state_no_eviction(Super, States, w, ctx) ==
    IF InfoId(Super) \notin w.present
    THEN Panic(w)
    ELSE LET i0 == w.info[Super]
             i1 == IF Len(i0.state_ids) = 0 THEN [i0 EXCEPT !.state_ids = States] ELSE i0
         IN [w EXCEPT
               !.info[Super] = [i1 EXCEPT !.states_on_entity = Append(@, ctx.component_id)]]

\* on_add_hook_state that evicts the state just attached when another
\* one is tracked: the first state wins
on_add_hook_state_first_wins(Super, States, w, ctx) ==
    IF InfoId(Super) \notin w.present
    THEN Panic(w)
    ELSE LET i0 == w.info[Super]
             i1 == IF Len(i0.state_ids) = 0 THEN [i0 EXCEPT !.state_ids = States] ELSE i0
             i2 == [i1 EXCEPT !.states_on_entity = Append(@, ctx.component_id)]
         IN [w EXCEPT
               !.info[Super] = i2,
               !.cmds = IF Len(i2.states_on_entity) > 1
                        THEN Append(@, Cmd("remove_by_id", ctx.entity,
                                           <<ctx.component_id>>, "hook"))
                        ELSE @]

\* on_add_hook_state that fills state_ids with the attached state alone
on_add_hook_state_own_id(Super, States, w, ctx) ==
    IF InfoId(Super) \notin w.present
    THEN Panic(w)
    ELSE LET i0 == w.info[Super]
             i1 == IF Len(i0.state_ids) = 0
                   THEN [i0 EXCEPT !.state_ids = <<ctx.component_id>>] ELSE i0
             i2 == [i1 EXCEPT !.states_on_entity = Append(@, ctx.component_id)]
             others == SelectSeq(i2.states_on_entity,
                                 LAMBDA id : id # ctx.component_id)
         IN [w EXCEPT
               !.info[Super] = i2,
               !.cmds = @ \o [k \in 1..Len(others) |->
                                Cmd("remove_by_id", ctx.entity, <<others[k]>>, "hook")]]

\* on_add_hook_state that evicts every tracked state, the new one too
on_add_hook_state_evicts_all(Super, States, w, ctx) ==
    IF InfoId(Super) \notin w.present
    THEN Panic(w)
    ELSE LET i0 == w.info[Super]
             i1 == IF Len(i0.state_ids) = 0 THEN [i0 EXCEPT !.state_ids = States] ELSE i0
             i2 == [i1 EXCEPT !.states_on_entity = Append(@, ctx.component_id)]
             all == i2.states_on_entity
         IN [w EXCEPT
               !.info[Super] = i2,
               !.cmds = @ \o [k \in 1..Len(all) |->
                                Cmd("remove_by_id", ctx.entity, <<all[k]>>, "hook")]]

on_add_hook_state(Super, States, w, ctx) ==
    IF InfoId(Super) \notin w.present
    THEN Panic(w)                                   \* get_mut(..).unwrap()
    ELSE LET ids == States      \* get_component_ids: every id is registered
             i0 == w.info[Super]
             i1 == IF Len(i0.state_ids) = 0 THEN [i0 EXCEPT !.state_ids = ids] ELSE i0
             i2 == [i1 EXCEPT !.states_on_entity = Append(@, ctx.component_id)]
             others == SelectSeq(i2.states_on_entity,
                                 LAMBDA id : id # ctx.component_id)
         IN [w EXCEPT
               !.info[Super] = i2,
               !.cmds = @ \o [k \in 1..Len(others) |->
                                Cmd("remove_by_id", ctx.entity, <<others[k]>>, "hook")]]

\* on_remove_hook_state that removes the category with every state
on_remove_hook_state_always_removes_super(Super, States, w, ctx) ==
    IF InfoId(Super) \notin w.present
    THEN Panic(w)
    ELSE [w EXCEPT
            !.info[Super] = remove_by_id(w.info[Super], ctx.component_id),
            !.cmds = Append(@, Cmd("remove", ctx.entity, <<Super>>, "hook"))]

\* on_remove_hook_state that leaves the record as it is
on_remove_hook_state_keeps_tracking(Super, States, w, ctx) ==
    IF InfoId(Super) \notin w.present
    THEN Panic(w)
    ELSE [w EXCEPT
            !.cmds = IF Len(w.info[Super].states_on_entity) <= 1
                     THEN Append(@, Cmd("remove", ctx.entity, <<Super>>, "hook"))
                     ELSE @]

\* on_remove_hook_state that leaves the category where it is
on_remove_hook_state_keeps_super(Super, States, w, ctx) ==
    IF InfoId(Super) \notin w.present
    THEN Panic(w)
    ELSE [w EXCEPT !.info[Super] = remove_by_id(w.info[Super], ctx.component_id)]

on_remove_hook_state(Super, States, w, ctx) ==
    IF InfoId(Super) \notin w.present
    THEN Panic(w)
    ELSE LET i1 == remove_by_id(w.info[Super], ctx.component_id)
         IN [w EXCEPT
               !.info[Super] = i1,
               !.cmds = IF Len(i1.states_on_entity) = 0
                        THEN Append(@, Cmd("remove", ctx.entity, <<Super>>, "hook"))
                        ELSE @]

\* on_add_superstate without its guard: the category is always removed
on_add_superstate_no_guard(Super, States, w, ctx) ==
    IF InfoId(Super) \notin w.present
    THEN Panic(w)
    ELSE [w EXCEPT !.cmds = Append(@, Cmd("remove", ctx.entity, <<Super>>, "hook"))]

\* on_add_superstate that accepts the category as it comes
on_add_superstate_accepts(Super, States, w, ctx) ==
    IF InfoId(Super) \notin w.present THEN Panic(w) ELSE w

on_add_superstate(Super, States, w, ctx) ==
    IF InfoId(Super) \notin w.present
    THEN Panic(w)
    ELSE [w EXCEPT
            !.cmds = IF Len(w.info[Super].states_on_entity) = 0
                     THEN Append(@, Cmd("remove", ctx.entity, <<Super>>, "hook"))
                     ELSE @]

\* on_remove_superstate that removes the states of every category
on_remove_superstate_removes_every_state(Super, States, w, ctx) ==
    IF InfoId(Super) \notin w.present
    THEN Panic(w)
    ELSE [w EXCEPT
            !.cmds = Append(@, Cmd("remove", ctx.entity,
                                   Declared("Movement") \o Declared("SuperB"),
                                   "hook")),
            !.info[Super].states_on_entity = <<>>]

\* on_remove_superstate that also queues the category's return
on_remove_superstate_restores(Super, States, w, ctx) ==
    IF InfoId(Super) \notin w.present
    THEN Panic(w)
    ELSE [w EXCEPT
            !.cmds = @ \o <<Cmd("remove", ctx.entity, States, "hook"),
                            Cmd("insert", ctx.entity, <<Super>>, "hook")>>,
            !.info[Super].states_on_entity = <<>>]

\* on_remove_superstate that goes on without the record
on_remove_superstate_tolerant(Super, States, w, ctx) ==
    IF InfoId(Super) \notin w.present
    THEN [w EXCEPT !.cmds = Append(@, Cmd("remove", ctx.entity, States, "hook"))]
    ELSE [w EXCEPT
            !.cmds = Append(@, Cmd("remove", ctx.entity, States, "hook")),
            !.info[Super].states_on_entity = <<>>]

\* on_remove_superstate that forgets the states but leaves them attached
on_remove_superstate_clear_only(Super, States, w, ctx) ==
    IF InfoId(Super) \notin w.present
    THEN Panic(w)
    ELSE [w EXCEPT !.info[Super].states_on_entity = <<>>]

\* on_remove_superstate that removes the record with the states
on_remove_superstate_drops_record(Super, States, w, ctx) ==
    IF InfoId(Super) \notin w.present
    THEN Panic(w)
    ELSE [w EXCEPT
            !.cmds = Append(@, Cmd("remove", ctx.entity,
                                   Append(States, InfoId(Super)), "hook")),
            !.info[Super].states_on_entity = <<>>]

on_remove_superstate(Super, States, w, ctx) ==
    IF InfoId(Super) \notin w.present
    THEN Panic(w)
    ELSE [w EXCEPT
            !.cmds = Append(@, Cmd("remove", ctx.entity, States, "hook")),
            !.info[Super].states_on_entity = <<>>]

\* the call of an installed hook (a fn pointer of the generic instance
\* <Super, States>)
CallHook(h, w, ctx) ==
    IF h.fn = "on_add_hook_state" THEN on_add_hook_state(h.super, h.states, w, ctx)
    ELSE IF h.fn = "on_remove_hook_state" THEN on_remove_hook_state(h.super, h.states, w, ctx)
    ELSE IF h.fn = "on_add_superstate" THEN on_add_superstate(h.super, h.states, w, ctx)
    ELSE IF h.fn = "on_remove_superstate" THEN on_remove_superstate(h.super, h.states, w, ctx)
    ELSE w

---------------------------------------------------------------------------
(* register_hooks, src/src/lib.rs 190-211 *)

RECURSIVE RequiredClosure(_)
RequiredClosure(ids) ==
    LET more == ids \cup UNION {Range(Required(id)) : id \in ids}
    IN IF more = ids THEN ids ELSE RequiredClosure(more)

\* world.register_component_hooks_by_id(id).ok_or(HookBusyError(id))?
\*      .on_add(add).on_remove(remove)
\* on the registration in progress r: the slot is None only for an id the
\* world does not know; on_add and on_remove panic on a slot that is taken.
\* InstallHooks that writes over a slot that is taken before it panics
InstallHooks_overwrites(r, id, add, remove) ==
    IF id \notin r.registered
    THEN [r EXCEPT !.kind = "Err", !.id = id]
    ELSE IF r.hooks[id] # NoHooks
    THEN [r EXCEPT !.kind = "panic", !.id = id,
                   !.hooks[id] = [on_add |-> add, on_remove |-> remove]]
    ELSE [r EXCEPT !.hooks[id] = [on_add |-> add, on_remove |-> remove]]

InstallHooks(r, id, add, remove) ==
    IF id \notin r.registered
    THEN [r EXCEPT !.kind = "Err", !.id = id]
    ELSE IF r.hooks[id].on_add # NoHook
    THEN [r EXCEPT !.kind = "panic", !.id = id]
    ELSE IF r.hooks[id].on_remove # NoHook
    THEN [r EXCEPT !.kind = "panic", !.id = id, !.hooks[id].on_add = add]
    ELSE [r EXCEPT !.hooks[id] = [on_add |-> add, on_remove |-> remove]]

\* for id in states_ids { ... } from the k-th state on
RECURSIVE InstallStates(_, _, _, _)
InstallStates(r, Super, States, k) ==
    IF k > Len(States) \/ r.kind # "Ok"
    THEN r
    ELSE InstallStates(
             InstallHooks(r, States[k],
                          Hook("on_add_hook_state", Super, States),
                          Hook("on_remove_hook_state", Super, States)),
             Super, States, k + 1)

\* the world's registry after register_hooks::<Super, States>(world), and
\* what the call returned: kind is "Ok", "Err" (HookBusyError(id)) or "panic"
register_hooks(reg, hks, Super, States) ==
    LET r0 == [registered |-> RequiredClosure(reg \cup {Super} \cup Range(States)),
               hooks |-> hks, kind |-> "Ok", id |-> "none"]
        r1 == InstallStates(r0, Super, States, 1)
    IN IF r1.kind # "Ok"
       THEN r1
       ELSE InstallHooks(r1, Super,
                         Hook("on_add_superstate", Super, States),
                         Hook("on_remove_superstate", Super, States))

---------------------------------------------------------------------------
(* The store operations the commands run *)

RECURSIVE Uniq(_)
Uniq(s) ==
    IF s = <<>> THEN <<>>
    ELSE LET r == Uniq(SubSeq(s, 1, Len(s) - 1))
         IN IF s[Len(s)] \in Range(r) THEN r ELSE Append(r, s[Len(s)])

RECURSIVE RequiredSeq(_)
RequiredSeq(bundle) ==
    IF bundle = <<>> THEN <<>>
    ELSE Required(Head(bundle)) \o RequiredSeq(Tail(bundle))

\* the required components a bundle contributes: those of its explicit
\* components that are not explicit themselves, each once
RequiredOf(bundle) ==
    SelectSeq(Uniq(RequiredSeq(bundle)), LAMBDA id : id \notin Range(bundle))

\* the components insert(bundle) adds to an entity holding `present`, in
\* the order their on_add hooks run
Added(present, bundle) ==
    SelectSeq(bundle \o RequiredOf(bundle), LAMBDA id : id \notin present)

\* run the hooks in `slot` of the components ids, in order, on entity e
RECURSIVE trigger(_, _, _, _)
trigger(slot, w, e, ids) ==
    IF ids = <<>> \/ w.panicked
    THEN w
    ELSE trigger(slot,
                 CallHook(hooks[Head(ids)][slot], w,
                          [entity |-> e, component_id |-> Head(ids)]),
                 e, Tail(ids))

\* EntityWorldMut::insert(bundle)
insert(e, bundle) ==
    LET added == Added(components[e], bundle)
        w0 == [present |-> components[e] \cup Range(added),
               info |-> [c \in Supers |->
                           IF InfoId(c) \in Range(added) THEN DefaultInfo
                           ELSE info[e][c]],
               cmds |-> <<>>,
               panicked |-> FALSE]
    IN trigger("on_add", w0, e, added)

\* EntityWorldMut::remove::<Bundle>() and remove_by_id(id)
remove(e, bundle) ==
    LET there == SelectSeq(bundle, LAMBDA id : id \in components[e])
        w0 == [present |-> components[e], info |-> info[e],
               cmds |-> <<>>, panicked |-> FALSE]
        w1 == trigger("on_remove", w0, e, there)
    IN IF w1.panicked THEN w1
       ELSE [w1 EXCEPT
               !.present = @ \ Range(there),
               !.info = [c \in Supers |->
                           IF InfoId(c) \in Range(there) THEN DefaultInfo
                           ELSE w1.info[c]]]

---------------------------------------------------------------------------
(* The world after construction *)

\* the sequences of 1..n different elements of S
Bundles(S, n) ==
    UNION {{b \in [1..k -> S] : \A i, j \in 1..k : i # j => b[i] # b[j]} : k \in 1..n}

\* what one register_hooks call leaves in `result`
Result(r, Super, States, before, calls) ==
    [kind |-> r.kind, id |-> r.id, super |-> Super, states |-> States,
     before |-> before, calls |-> calls]

EmptyHooks == [id \in ComponentIds |-> NoHooks]

\* the history of a flush in which no user command has been applied
NoTxn ==
    [n |-> 0, pure |-> TRUE,
     attached |-> [e \in Entities |-> [c \in Supers |-> {}]],
     newest |-> [e \in Entities |-> [c \in Supers |-> "none"]]]

\* the history before a user command is applied
NoLast == [cmd |-> NoCmd, present |-> {}, info |-> [c \in Supers |-> DefaultInfo]]

\* a new World, nothing registered, the entities spawned empty
NewWorld ==
    /\ components = [e \in Entities |-> {}]
    /\ info = [e \in Entities |-> [c \in Supers |-> DefaultInfo]]
    /\ queue = <<>>
    /\ flushing = FALSE
    /\ panicked = FALSE
    /\ last = NoLast
    /\ txn = NoTxn

\* the crate docs' main(): both categories registered with their bundles
Init ==
    LET r1 == register_hooks({}, EmptyHooks, "Movement", Declared("Movement"))
        r2 == register_hooks(r1.registered, r1.hooks, "SuperB", Declared("SuperB"))
    IN /\ registered = r2.registered
       /\ hooks = r2.hooks
       /\ result = Result(r2, "SuperB", Declared("SuperB"), r1.hooks, 2)
       /\ NewWorld

---------------------------------------------------------------------------
(* Actions *)

UserBundles ==
    UNION {Bundles(Range(Declared(c)) \cup {c}, MaxBundle) : c \in Supers}

\* world.commands().entity(e).insert(bundle) / .remove::<Bundle>() and the
\* flush that applies it.  The user commands of one flush wait in the queue
\* in the order they were issued and nothing reads a waiting command, so
\* the model draws each one when the commands before it, and the commands
\* their hooks queued, have been applied: the queue holds the user command
\* being applied and the hooks' commands.  The first command of a flush
\* starts the history of the flush, every command its own.
Submit(op, e, bundle) ==
    /\ ~panicked
    /\ queue = <<>>
    /\ flushing => txn.n < MaxTxn
    /\ queue' = <<Cmd(op, e, bundle, "user")>>
    /\ flushing' = TRUE
    /\ txn' = IF flushing THEN txn ELSE NoTxn
    /\ last' = NoLast
    /\ UNCHANGED <<registered, hooks, result, components, info, panicked>>

\* the flush ends: every command has been applied and none is left
Settle ==
    /\ ~panicked
    /\ flushing
    /\ queue = <<>>
    /\ flushing' = FALSE
    /\ UNCHANGED <<registered, hooks, result, components, info, queue,
                   panicked, last, txn>>

\* the history a user command leaves; a hook's command leaves none.
\* `added` are the explicit components the command attached (they were not
\* on the entity).  While every user command of the flush has been an
\* insert of states alone (txn.pure), txn.attached collects the states
\* attached and txn.newest is the one attached last.
History(cmd, added) ==
    IF cmd.by # "user"
    THEN UNCHANGED <<last, txn>>
    ELSE LET new(c) == SelectSeq(added, LAMBDA id : id \in Range(Declared(c)))
             pure == /\ txn.pure
                     /\ cmd.op = "insert"
                     /\ Range(cmd.bundle) \subseteq StateIds
         IN /\ last' = [cmd |-> cmd, present |-> components[cmd.entity],
                        info |-> info[cmd.entity]]
            /\ txn' = IF ~pure
                      THEN [NoTxn EXCEPT !.n = txn.n + 1, !.pure = FALSE]
                      ELSE [n |-> txn.n + 1,
                            pure |-> TRUE,
                            attached |-> [txn.attached EXCEPT ![cmd.entity] =
                                [c \in Supers |-> @[c] \cup Range(new(c))]],
                            newest |-> [txn.newest EXCEPT ![cmd.entity] =
                                [c \in Supers |->
                                   IF new(c) = <<>> THEN @[c]
                                   ELSE new(c)[Len(new(c))]]]]

\* the head command's operation has run and left the entity as w
Applied(cmd, w) ==
    /\ components' = [components EXCEPT ![cmd.entity] = w.present]
    /\ info' = [info EXCEPT ![cmd.entity] = w.info]
    /\ queue' = w.cmds \o Tail(queue)
    /\ panicked' = w.panicked
    /\ UNCHANGED <<registered, hooks, result, flushing>>

\* the head of the queue is an insert: apply it, run the on_add hooks
ApplyInsert ==
    /\ ~panicked
    /\ flushing
    /\ queue # <<>>
    /\ Head(queue).op = "insert"
    /\ LET cmd == Head(queue)
       IN /\ Applied(cmd, insert(cmd.entity, cmd.bundle))
          /\ History(cmd, SelectSeq(cmd.bundle,
                              LAMBDA id : id \notin components[cmd.entity]))

\* the head of the queue is a remove: run the on_remove hooks, apply it
ApplyRemove ==
    /\ ~panicked
    /\ flushing
    /\ queue # <<>>
    /\ Head(queue).op \in {"remove", "remove_by_id"}
    /\ LET cmd == Head(queue)
       IN /\ Applied(cmd, remove(cmd.entity, cmd.bundle))
          /\ History(cmd, <<>>)

Next ==
    \/ \E op \in {"insert", "remove"}, e \in Entities, b \in UserBundles :
          Submit(op, e, b)
    \/ Settle
    \/ ApplyInsert
    \/ ApplyRemove

Spec == Init /\ [][Next]_vars

---------------------------------------------------------------------------
(* Registration on a new world: register_hooks called with any category    *)
(* and any bundle of different state types                                 *)

InitReg ==
    /\ registered = {}
    /\ hooks = EmptyHooks
    /\ result = [kind |-> "none", id |-> "none", super |-> "none",
                 states |-> <<>>, before |-> EmptyHooks, calls |-> 0]
    /\ NewWorld

\* register_hooks::<Super, States>(&mut world); a panic ends the run
Register(Super, States) ==
    /\ ~panicked
    /\ result.calls < MaxCalls
    /\ LET r == register_hooks(registered, hooks, Super, States)
       IN /\ registered' = r.registered
          /\ hooks' = r.hooks
          /\ result' = Result(r, Super, States, hooks, result.calls + 1)
          /\ panicked' = (r.kind = "panic")
    /\ UNCHANGED <<components, info, queue, flushing, last, txn>>

NextReg ==
    \E Super \in Supers, States \in Bundles(StateIds, MaxRegBundle) :
        Register(Super, States)

RegSpec == InitReg /\ [][NextReg]_vars

---------------------------------------------------------------------------
(* What the claims speak of *)

\* the state attributes of category c attached to entity e
Attached(e, c) == components[e] \cap Range(Declared(c))

\* active_state_ids (states_on_entity) of e's record for c
Active(e, c) == info[e][c].states_on_entity

\* every command queued so far has been applied
Quiet == queue = <<>> /\ ~panicked

\* a user command has been applied and so have the commands its hooks queued
After(cmd) == Quiet /\ last.cmd = cmd

\* the abstract state of category c on an entity holding `present` with
\* record value i
Abs(present, i, c) ==
    LET on == present \cap Range(Declared(c))
    IN IF on = {} /\ c \notin present /\ i[c].states_on_entity = <<>>
       THEN <<"Absent">>
       ELSE IF /\ c \in present
               /\ Cardinality(on) = 1
               /\ \E s \in on : i[c].states_on_entity = <<s>>
       THEN <<"OneActive", CHOOSE s \in on : TRUE>>
       ELSE <<"Other">>

---------------------------------------------------------------------------
(* C1  Exclusivity: whenever every queued command has been applied, each   *)
(* entity has at most one state attribute of each registered category      *)
(* attached and states_on_entity has at most one element.                  *)
Exclusivity ==
    Quiet => \A e \in Entities, c \in Supers :
                 /\ Cardinality(Attached(e, c)) <= 1
                 /\ Len(Active(e, c)) <= 1

\* two states were attached by one insert to an entity that held a third,
\* and one state is left
ExclusivityWitness ==
    \E e \in Entities, c \in Supers :
        /\ Quiet
        /\ last.cmd.op = "insert" /\ last.cmd.entity = e
        /\ Cardinality(Range(last.cmd.bundle) \cap Range(Declared(c))) >= 2
        /\ Cardinality(last.present \cap Range(Declared(c))) = 1
        /\ last.present \cap Range(last.cmd.bundle) = {}
        /\ Cardinality(Attached(e, c)) = 1
        /\ Len(Active(e, c)) = 1

(* C2  Category-follows-state: whenever every queued command has been      *)
(* applied, the category attribute is on an entity iff a state attribute   *)
(* of the category is attached to it, iff states_on_entity is non-empty.   *)
CategoryFollowsState ==
    Quiet => \A e \in Entities, c \in Supers :
                 /\ (c \in components[e]) <=> (Attached(e, c) # {})
                 /\ (c \in components[e]) <=> (Active(e, c) # <<>>)

\* the only state was detached by the user and the category went with it
CategoryFollowsStateWitness ==
    \E e \in Entities, c \in Supers, s \in StateIds :
        /\ After(Cmd("remove", e, <<s>>, "user"))
        /\ s \in Range(Declared(c))
        /\ {s, c} \subseteq last.present
        /\ c \notin components[e]
        /\ Attached(e, c) = {}

CascadeSettled ==
    \A e \in Entities, c \in Supers :
        After(Cmd("remove", e, <<c>>, "user")) =>
            /\ Attached(e, c) = {}
            /\ c \notin components[e]
            /\ Active(e, c) = <<>>

CascadeStep ==
    \A e \in Entities, c \in Supers :
        (/\ queue # <<>>
         /\ Head(queue) = Cmd("remove", e, <<c>>, "user")
         /\ c \in components[e]
         /\ last' # last)
        => /\ queue' = <<Cmd("remove", e, Declared(c), "hook")>>
           /\ info'[e][c].states_on_entity = <<>>

(* C4  Cascade on category removal: after the user detaches the category   *)
(* from an entity, no state of the category is attached to it, the         *)
(* category is absent and states_on_entity is empty; and the detach hook   *)
(* queues the removal of the whole declared bundle.                        *)
CascadeOnCategoryRemoval == []CascadeSettled /\ [][CascadeStep]_vars

\* the category was detached from an entity holding a state, which is gone
CascadeWitness ==
    \E e \in Entities, c \in Supers :
        /\ After(Cmd("remove", e, <<c>>, "user"))
        /\ c \in last.present
        /\ last.present \cap Range(Declared(c)) # {}
        /\ Attached(e, c) = {}

\* what every step keeps, and the entity after attach(b) on an idle record
\* and after the detach of an attached state
RecordKept ==
    \A e \in Entities, c \in Supers :
        /\ InfoId(c) \in components[e] => InfoId(c) \in components'[e]
        /\ \A k \in 1..Len(queue') : InfoId(c) \notin Range(queue'[k].bundle)

RecordReusable ==
    \A e \in Entities, c \in Supers : \A b \in Range(Declared(c)) :
        (/\ After(Cmd("insert", e, <<b>>, "user"))
         /\ InfoId(c) \in last.present
         /\ last.info[c].states_on_entity = <<>>)
        => /\ InfoId(c) \in components[e]
           /\ Abs(components[e], info[e], c) = <<"OneActive", b>>

RecordIdle ==
    \A e \in Entities, c \in Supers : \A a \in Range(Declared(c)) :
        (/\ After(Cmd("remove", e, <<a>>, "user"))
         /\ a \in last.present)
        => /\ InfoId(c) \in components[e]
           /\ Active(e, c) = <<>>

(* C5  Record persistence: no step takes a SuperstateInfo record off an    *)
(* entity and no hook queues its removal; after attach(A), detach(A) the   *)
(* record is there with empty states_on_entity, and attach(B) then leaves  *)
(* B alone attached, with the category.                                    *)
RecordPersistence == [](RecordReusable /\ RecordIdle) /\ [][RecordKept]_vars

\* a state is attached to an entity whose record was used before and is idle
RecordPersistenceWitness ==
    \E e \in Entities, c \in Supers : \E b \in Range(Declared(c)) :
        /\ After(Cmd("insert", e, <<b>>, "user"))
        /\ InfoId(c) \in last.present
        /\ last.info[c].state_ids # <<>>
        /\ last.info[c].states_on_entity = <<>>
        /\ Abs(components[e], info[e], c) = <<"OneActive", b>>

(* C6  The settled state of a category on an entity follows the abstract   *)
(* machine Absent / OneActive(s): it starts Absent; once a user command    *)
(* and the commands of its hooks are applied, attach-state(s) from Absent  *)
(* or from OneActive(s') has given OneActive(s), detach-state(s) from      *)
(* OneActive(s) has given Absent, detach-category has given Absent; and    *)
(* no state with an empty queue has more than one state attached.          *)
FollowsMachine ==
    \A e \in Entities, c \in Supers :
        LET pre == Abs(last.present, last.info, c)
            post == Abs(components[e], info[e], c)
        IN /\ Quiet => post # <<"Other">>
           /\ (Quiet /\ last.cmd = NoCmd /\ ~flushing /\ txn.n = 0) => post = <<"Absent">>
           /\ \A s \in Range(Declared(c)) :
                /\ After(Cmd("insert", e, <<s>>, "user")) =>
                      /\ pre # <<"Other">>
                      /\ post = <<"OneActive", s>>
                /\ (After(Cmd("remove", e, <<s>>, "user")) /\ pre = <<"OneActive", s>>)
                      => post = <<"Absent">>
           /\ After(Cmd("remove", e, <<c>>, "user")) => post = <<"Absent">>

\* a state was attached to an entity in OneActive of another state
FollowsMachineWitness ==
    \E e \in Entities, c \in Supers :
        \E s \in Range(Declared(c)), t \in Range(Declared(c)) :
            /\ s # t
            /\ After(Cmd("insert", e, <<t>>, "user"))
            /\ Abs(last.present, last.info, c) = <<"OneActive", s>>
            /\ Abs(components[e], info[e], c) = <<"OneActive", t>>

(* C8  Standalone category attach is rejected: after the category is       *)
(* attached alone to an entity that has no state of it tracked, the        *)
(* category is absent, no state of it is attached and the record is there  *)
(* with empty states_on_entity.                                            *)
StandaloneCategoryRejected ==
    \A e \in Entities, c \in Supers :
        (/\ After(Cmd("insert", e, <<c>>, "user"))
         /\ last.info[c].states_on_entity = <<>>)
        => /\ c \notin components[e]
           /\ Attached(e, c) = {}
           /\ InfoId(c) \in components[e]
           /\ Active(e, c) = <<>>

\* the category was attached alone to an entity without it; the record
\* came with it and stays
StandaloneCategoryWitness ==
    \E e \in Entities, c \in Supers :
        /\ After(Cmd("insert", e, <<c>>, "user"))
        /\ InfoId(c) \notin last.present
        /\ c \notin components[e]
        /\ InfoId(c) \in components[e]

\* what one step may do to state_ids
StateIdsStep ==
    \A e \in Entities, c \in Supers :
        LET ids == info[e][c].state_ids
            ids2 == info'[e][c].state_ids
            attaches == ~(Attached(e, c)' \subseteq Attached(e, c))
        IN /\ attaches => ids2 = Declared(c)
           /\ ids # <<>> => ids2 = ids
           /\ ids2 # ids => attaches

(* C10  state_ids is empty until a state of the category is attached to    *)
(* the entity, is the whole declared bundle from the step that attaches    *)
(* the first one, whichever it is, and never changes afterwards.           *)
StateIdsFixed ==
    /\ \A e \in Entities, c \in Supers : info[e][c].state_ids = <<>>
    /\ [][StateIdsStep]_vars

\* the first state attached was the last of the bundle, and state_ids is
\* the whole bundle
StateIdsWitness ==
    \E e \in Entities, c \in Supers :
        /\ Quiet
        /\ last.cmd = Cmd("insert", e, <<Declared(c)[Len(Declared(c))]>>, "user")
        /\ last.info[c].state_ids = <<>>
        /\ info[e][c].state_ids = Declared(c)

\* the identities of the last register_hooks call in the order it takes
\* them, and whether the k-th had a hook before the call
CallIds == Append(result.states, result.super)

BusyAt(k) == result.before[CallIds[k]] # NoHooks

(* C7  Busy-hook rejection: a register_hooks call made when one of its     *)
(* state identities, or its category identity, already has hooks returns   *)
(* Err(HookBusyError(id)) for the first such identity of the call (states  *)
(* in bundle order, then the category) and leaves that identity's hooks    *)
(* as they were.                                                           *)
BusyHookRejected ==
    \A k \in 1..Len(CallIds) :
        (/\ result.calls > 0
         /\ BusyAt(k)
         /\ \A j \in 1..(k - 1) : ~BusyAt(j))
        => /\ result.kind = "Err"
           /\ result.id = CallIds[k]
           /\ hooks[CallIds[k]] = result.before[CallIds[k]]

(* C9  A category removal queued by on_add_superstate is superseded by a   *)
(* state attached afterwards: when one insert attaches the category, whose *)
(* hook runs while states_on_entity is empty, and then a state of it, the  *)
(* state and the category are on the entity once the queue is empty.       *)
GuardRemovalSuperseded ==
    \A e \in Entities, c \in Supers :
        \A s \in Range(Declared(c)) :
            (/\ After(Cmd("insert", e, <<c, s>>, "user"))
             /\ c \notin last.present
             /\ last.info[c].states_on_entity = <<>>)
            => /\ s \in components[e]
               /\ c \in components[e]

---------------------------------------------------------------------------
(* The same world with a user who also deletes the record: "You can safely *)
(* delete this component if you verify that the entity does not have a     *)
(* superstate" (src/src/lib.rs 219-222), here without the verification.    *)

\* the longest bundle of a user command in this world
MaxInfoBundle == 1

InfoBundles ==
    UNION {Bundles(Range(Declared(c)) \cup {c}, MaxInfoBundle) : c \in Supers}

NextInfo ==
    \/ \E op \in {"insert", "remove"}, e \in Entities, b \in InfoBundles :
          Submit(op, e, b)
    \/ \E e \in Entities, c \in Supers : Submit("remove", e, <<InfoId(c)>>)
    \/ Settle
    \/ ApplyInsert
    \/ ApplyRemove

InfoSpec == Init /\ [][NextInfo]_vars

\* the components of the head command's bundle that are on its entity: the
\* ones whose on_remove hooks a remove runs
There == SelectSeq(Head(queue).bundle,
                   LAMBDA id : id \in components[Head(queue).entity])

\* the head command is a remove that runs the hook of a component whose
\* category's record is not on the entity
HookWithoutRecord ==
    /\ queue # <<>>
    /\ Head(queue).op \in {"remove", "remove_by_id"}
    /\ \E k \in 1..Len(There) :
          /\ hooks[There[k]].on_remove # NoHook
          /\ InfoId(hooks[There[k]].on_remove.super)
                \notin components[Head(queue).entity]

FatalStep ==
    (~panicked /\ HookWithoutRecord)
    => /\ panicked'
       /\ info' = info
       /\ components' = components
       /\ queue' = Tail(queue)

(* C11  Precondition violation is fatal: a hook that fires on an entity    *)
(* whose SuperstateInfo record is missing panics, and the step changes no  *)
(* record, detaches nothing and queues no command.  (Only the on_remove    *)
(* hooks can meet a missing record: an insert brings the record with it.)  *)
MissingRecordIsFatal == [][FatalStep]_vars

\* a hook has panicked on an entity that holds a state without the record
MissingRecordWitness ==
    \E e \in Entities, c \in Supers :
        /\ panicked
        /\ InfoId(c) \notin components[e]
        /\ Attached(e, c) # {}
        /\ queue = <<>>

\* the head command is a remove that runs on_remove_hook_state for exactly
\* one state s, whose record is on the entity and does not track s
UntrackedDetach(e, s) ==
    /\ ~panicked
    /\ queue # <<>>
    /\ Head(queue).op \in {"remove", "remove_by_id"}
    /\ Head(queue).entity = e
    /\ There = <<s>>
    /\ InfoId(SuperOf(s)) \in components[e]
    /\ s \notin Range(Active(e, SuperOf(s)))

UntrackedDetachStep ==
    \A e \in Entities, s \in StateIds :
        UntrackedDetach(e, s)
        => /\ ~panicked'
           /\ info'[e][SuperOf(s)] = info[e][SuperOf(s)]
           /\ queue' = (IF Active(e, SuperOf(s)) = <<>>
                        THEN <<Cmd("remove", e, <<SuperOf(s)>>, "hook")>>
                        ELSE <<>>) \o Tail(queue)

(* C12  Detach of an untracked state is a silent no-op on the record: when *)
(* on_remove_hook_state runs for a state that is not in states_on_entity,  *)
(* the record is unchanged and nothing panics, and the removal of the      *)
(* category is queued exactly when states_on_entity is empty.              *)
UntrackedDetachIsNoOp == [][UntrackedDetachStep]_vars

\* an untracked state is about to be detached while another state is
\* tracked: the list is not empty and no removal of the category follows
UntrackedDetachWitness ==
    \E e \in Entities, s \in StateIds :
        /\ UntrackedDetach(e, s)
        /\ Active(e, SuperOf(s)) # <<>>

---------------------------------------------------------------------------
\* the last register_hooks call did not return Ok(())
CallFailed == result.calls > 0 /\ result.kind \in {"Err", "panic"}

CallHooks(k) ==
    IF k <= Len(result.states)
    THEN [on_add |-> Hook("on_add_hook_state", result.super, result.states),
          on_remove |-> Hook("on_remove_hook_state", result.super, result.states)]
    ELSE [on_add |-> Hook("on_add_superstate", result.super, result.states),
          on_remove |-> Hook("on_remove_superstate", result.super, result.states)]

---------------------------------------------------------------------------
\* the commands the step put on the queue, in the order they were queued
Queued == SubSeq(queue', 1, Len(queue') - (Len(queue) - 1))

\* the removals on_add_hook_state is to queue when the states `new` are
\* attached one after the other to an entity that tracks `tracked`: for
\* each new state s, one removal for every state tracked other than s
RECURSIVE Evictions(_, _, _)
Evictions(e, tracked, new) ==
    IF new = <<>> THEN <<>>
    ELSE LET others == SelectSeq(tracked, LAMBDA id : id # Head(new))
         IN [k \in 1..Len(others) |-> Cmd("remove_by_id", e, <<others[k]>>, "hook")]
            \o Evictions(e, Append(tracked, Head(new)), Tail(new))

\* the head command is an insert that attaches the states `new` of c to e
AttachStep(e, c) ==
    LET cmd == Head(queue)
        new == SelectSeq(cmd.bundle,
                         LAMBDA id : /\ id \in Range(Declared(c))
                                     /\ id \notin components[e])
    IN (/\ queue # <<>> /\ ~panicked
        /\ cmd.op = "insert" /\ cmd.entity = e
        /\ new # <<>>)
       => /\ Active(e, c)' = Active(e, c) \o new
          /\ SelectSeq(Queued, LAMBDA q : q.op = "remove_by_id")
                = Evictions(e, Active(e, c), new)
          /\ \A k \in 1..Len(Queued) :
                /\ Queued[k].op \in {"remove", "remove_by_id"}
                /\ Queued[k].by = "hook"
                /\ Queued[k].op = "remove" => Queued[k].bundle = <<c>>

\* what a step attaches or detaches is what its command names (and, for an
\* insert, requires): the hooks attach and detach nothing themselves
OnlyCommandsMove ==
    (queue # <<>> /\ ~panicked)
    => LET cmd == Head(queue)
           e == cmd.entity
       IN components'[e] =
             IF cmd.op = "insert"
             THEN components[e] \cup Range(cmd.bundle)
                                \cup Range(RequiredOf(cmd.bundle))
             ELSE components[e] \ Range(cmd.bundle)

(* C14  on_add_hook_state for s appends s to states_on_entity and queues   *)
(* the removal of exactly the tracked states other than s, never of s      *)
(* itself; no hook attaches or detaches a component itself: a step changes *)
(* the entity's components by what its command names and nothing else.     *)
AttachQueuesEvictions ==
    [][/\ \A e \in Entities, c \in Supers : AttachStep(e, c)
       /\ OnlyCommandsMove]_vars

\* a state was attached to an entity that tracked another, and the one
\* command queued is the removal of that other state
AttachQueuesEvictionsWitness ==
    \E e \in Entities, c \in Supers :
        \E s \in Range(Declared(c)), t \in Range(Declared(c)) :
            /\ s # t
            /\ last.cmd = Cmd("insert", e, <<t>>, "user")
            /\ last.info[c].states_on_entity = <<s>>
            /\ Active(e, c) = <<s, t>>
            /\ queue = <<Cmd("remove_by_id", e, <<s>>, "hook")>>

---------------------------------------------------------------------------
\* no element occurs twice in the sequence
NoDuplicates(seq) ==
    \A j \in 1..Len(seq), k \in 1..Len(seq) : seq[j] = seq[k] => j = k

(* C15  states_on_entity holds no state twice, in every reachable state,   *)
(* with commands still queued or not.                                      *)
ActiveDuplicateFree ==
    \A e \in Entities, c \in Supers : NoDuplicates(Active(e, c))

\* three states are tracked while their evictions are queued
ActiveDuplicateFreeWitness ==
    \E e \in Entities, c \in Supers :
        /\ queue # <<>>
        /\ Len(Active(e, c)) = 3
        /\ ~panicked

(* C16  Tracking matches attachment: in every reachable state every state  *)
(* in states_on_entity is attached to the entity, and whenever the queue   *)
(* is empty the attached states of the category are exactly the states in  *)
(* states_on_entity.                                                       *)
TrackingMatchesAttachment ==
    \A e \in Entities, c \in Supers :
        /\ Range(Active(e, c)) \subseteq Attached(e, c)
        /\ Quiet => Attached(e, c) = Range(Active(e, c))

\* between on_remove_superstate and the removal of the states: states are
\* attached and none is tracked
TrackingWitness ==
    \E e \in Entities, c \in Supers :
        /\ queue # <<>> /\ ~panicked
        /\ Head(queue) = Cmd("remove", e, Declared(c), "hook")
        /\ Attached(e, c) # {}
        /\ Active(e, c) = <<>>

---------------------------------------------------------------------------
(* The flush applies the queue until it is empty, so a                     *)
(* command at the head of the queue is applied.                            *)
(* Each user command is flushed on its own here: a hook's commands are     *)
(* applied before the next user command is looked at, so the cascade of a  *)
(* command starts from an entity with an empty queue in either case.       *)
NextFlush ==
    \/ \E op \in {"insert", "remove"}, e \in Entities, b \in UserBundles :
          ~flushing /\ Submit(op, e, b)
    \/ Settle
    \/ ApplyInsert
    \/ ApplyRemove

\* a command waits at the head of the queue of a running flush: one of
\* ApplyInsert and ApplyRemove is enabled
Ready == ~panicked /\ flushing /\ queue # <<>>

Apply == ApplyInsert \/ ApplyRemove

\* weak fairness of Apply, WF_vars(Apply), with Ready written for
\* ENABLED <<Apply>>_vars
FairSpec ==
    /\ Init /\ [][NextFlush]_vars
    /\ ([]<>(~Ready) \/ []<><<Apply>>_vars)


\* a step that applies a command queued by a hook detaches a component, or
\* detaches nothing and leaves the queue one command shorter; it attaches
\* nothing
HookCommandShrinks ==
    (queue # <<>> /\ ~panicked /\ Head(queue).by = "hook")
    => LET e == Head(queue).entity
       IN /\ components'[e] \subseteq components[e]
          /\ \/ components'[e] # components[e]
             \/ Len(queue') < Len(queue)

(* C17  The hook cascade terminates: every command a hook queues detaches  *)
(* a component or shortens the queue, and a queue that holds commands      *)
(* becomes empty.                                                          *)
CascadeTerminates ==
    /\ [][HookCommandShrinks]_vars
    /\ (queue # <<>> /\ ~panicked) ~> (queue = <<>>)

\* three commands queued by hooks wait: the evictions of two states and the
\* removal of the category
CascadeTerminatesWitness ==
    /\ ~panicked
    /\ Len(queue) >= 3
    /\ \A k \in 1..Len(queue) : queue[k].by = "hook"

---------------------------------------------------------------------------
\* the last user command applied to e was an insert that attached state t
\* of c, and no other state of c, while c was OneActive(s) with an empty
\* queue
Replacing(e, c, s, t) ==
    /\ ~panicked
    /\ last.cmd.op = "insert" /\ last.cmd.by = "user" /\ last.cmd.entity = e
    /\ Range(last.cmd.bundle) \cap Range(Declared(c)) = {t}
    /\ s # t
    /\ Abs(last.present, last.info, c) = <<"OneActive", s>>

(* C18  Replacing a state keeps the category: from the attachment of t to  *)
(* an entity in OneActive(s) until the queue is empty, the category is     *)
(* attached and no queued command removes it, and with the queue empty the *)
(* category is OneActive(t).                                               *)
ReplaceKeepsCategory ==
    \A e \in Entities, c \in Supers :
        \A s \in Range(Declared(c)), t \in Range(Declared(c)) :
            Replacing(e, c, s, t)
            => /\ c \in components[e]
               /\ \A k \in 1..Len(queue) :
                     ~(/\ queue[k].op \in {"remove", "remove_by_id"}
                       /\ c \in Range(queue[k].bundle))
               /\ Quiet => Abs(components[e], info[e], c) = <<"OneActive", t>>

\* t is attached and tracked next to s, whose eviction is the command
\* waiting
ReplaceKeepsCategoryWitness ==
    \E e \in Entities, c \in Supers :
        \E s \in Range(Declared(c)), t \in Range(Declared(c)) :
            /\ Replacing(e, c, s, t)
            /\ Attached(e, c) = {s, t}
            /\ queue # <<>>
            /\ Head(queue) = Cmd("remove_by_id", e, <<s>>, "hook")

---------------------------------------------------------------------------
\* the components of category c: its states, the category and its record
Family(c) == Range(Declared(c)) \cup {c, InfoId(c)}

\* a step that applies a command naming no component of category d leaves
\* d's record and d's components on the entity as they were and queues no
\* command that names a component of d
IndependentStep(e, d) ==
    (/\ queue # <<>> /\ ~panicked
     /\ Head(queue).entity = e
     /\ Range(Head(queue).bundle) \cap Family(d) = {})
    => /\ info'[e][d] = info[e][d]
       /\ components'[e] \cap Family(d) = components[e] \cap Family(d)
       /\ \A k \in 1..Len(Queued) :
             Range(Queued[k].bundle) \cap Family(d) = {}

(* C19  Categories are independent: attaching or detaching a state or the  *)
(* category of one category, and every command its hooks queue, leaves the *)
(* other category's record, category component and state components on    *)
(* the entity unchanged and queues no removal of them.                     *)
CategoriesIndependent ==
    [][\A e \in Entities, d \in Supers : IndependentStep(e, d)]_vars

\* the removal of one category's states is about to be applied on an
\* entity that holds a tracked state of the other category
CategoriesIndependentWitness ==
    \E e \in Entities, c \in Supers, d \in Supers :
        /\ c # d
        /\ queue # <<>> /\ ~panicked
        /\ Head(queue) = Cmd("remove", e, Declared(c), "hook")
        /\ Attached(e, c) # {}
        /\ Len(Active(e, d)) = 1
        /\ Attached(e, d) = Range(Active(e, d))
        /\ d \in components[e]

====
